---- MODULE Spec2Model ----
(***************************************************************************)
(* State-machine model of the session / presence-broadcast layer of        *)
(* src/server.js (the PlayerAccounts revision with maps, parties and        *)
(* guilds, lines 387-775).  One action per event handler; every handler    *)
(* runs to completion before the next one starts (single-threaded event    *)
(* loop).                                                                   *)
(***************************************************************************)
EXTENDS Integers, Sequences, FiniteSets, TLC

(***************************************************************************)
(* Bounds of the model.                                                    *)
(***************************************************************************)
MaxConns == 2      \* connections the clients of Spec open over its lifetime
MaxPartyId == 2    \* largest party id handed out
MaxGuildId == 2    \* largest guild id handed out
MaxMembers == 2    \* longest guild member list in SpecGuilds
GroupsMaxId == 1   \* largest party id and guild id handed out in SpecGroups

(***************************************************************************)
(* JavaScript values.  null and undefined are kept apart; both are falsy.  *)
(***************************************************************************)
Null == -1
Undefined == -2
NoUser == "null"

Truthy(v) == v \notin {Null, Undefined, 0}

\* a || b
Or(a, b) == IF Truthy(a) THEN a ELSE b

\* obj.f : undefined when the property is absent
Field(obj, f) == IF f \in DOMAIN obj THEN obj[f] ELSE Undefined

\* Map.set / Map.delete / Map.has on a map modelled as a function
MapSet(m, k, v) == [x \in DOMAIN m \cup {k} |-> IF x = k THEN v ELSE m[x]]
MapDeleteNothing(m, k) == m
MapDelete(m, k) == [x \in DOMAIN m \ {k} |-> m[x]]
MapHas(m, k) == k \in DOMAIN m

EmptyMap == [x \in {} |-> Null]

\* Object.assign(target, source): own properties of source overwrite target's
ObjectAssign(target, source) ==
    [f \in DOMAIN target \cup DOMAIN source |->
        IF f \in DOMAIN source THEN source[f] ELSE target[f]]

\* properties that hold a string in every message and record of the model
StringFields == {"password"}

\* JSON.parse(JSON.stringify(obj)): properties whose value is undefined are
\* dropped by stringify, everything else survives the round trip
JsonRoundTrip(obj) ==
    [f \in {g \in DOMAIN obj : g \in StringFields \/ obj[g] # Undefined} |-> obj[f]]

\* Array.prototype.filter(m => m !== username)
RECURSIVE FilterOut(_, _)
FilterOut(members, u) ==
    IF members = <<>> THEN <<>>
    ELSE IF Head(members) = u THEN FilterOut(Tail(members), u)
         ELSE <<Head(members)>> \o FilterOut(Tail(members), u)

\* n copies of message m
RECURSIVE Repeat(_, _)
Repeat(m, n) == IF n = 0 THEN <<>> ELSE <<m>> \o Repeat(m, n - 1)

(***************************************************************************)
(* Inputs.                                                                  *)
(***************************************************************************)
Users == {"alice", "bob", "carol"}
Passwords == {"pw1", "wrong"}
\* the sockets of the model: one per user
Conns == 1 .. Cardinality(Users)
Maps == {1, 2}
\* <<x, y, direction>> carried by playerMove
Positions == {<<5, 5, 4>>}
\* playerData payloads of saveData
PositionPayload == [mapId |-> 2, x |-> 5, y |-> 5]
GoldPayload == [gold |-> 7]
Payloads == {PositionPayload, GoldPayload}
\* a playerData payload that names the guildId field
GuildPayload == [guildId |-> Null]
\* a playerData payload that names the map and no coordinates
MapOnlyPayload == [mapId |-> 2]
SavePayloads == {PositionPayload, MapOnlyPayload}

VARIABLES
    readyState,        \* connection -> "NONE" (not yet accepted) | "OPEN" | "CLOSED"
    username,          \* connection -> the handler closure's `username`
    playerDirs,        \* usernames with a directory under PlayerAccounts
    dataFile,          \* username -> contents of PlayerAccounts/<u>/data.json
    connectedPlayers,  \* username -> {ws, mapId, x, y, direction, partyId, guildId}
    parties,           \* partyId -> {leader, members}
    nextPartyId,
    guilds,            \* guildId -> {name, leader, members}
    nextGuildId,
    guildFile,         \* contents of guilds.json
    sent,              \* connection -> messages sent to it by the last handler run
    last,              \* the event handled last: [conn, msg]
    effects,           \* the writes of data.json and guilds.json and the sends of the
                       \* last handler run, in order (log lines are not recorded)
    invited            \* <<username, guildId>>: guildInvites delivered to the live session

vars == <<readyState, username, playerDirs, dataFile, connectedPlayers, parties,
          nextPartyId, guilds, nextGuildId, guildFile, sent, last, effects, invited>>

NoneSent == [c \in Conns |-> <<>>]

\* the sends of a handler run as one entry of its effects (nothing when no
\* message went out)
SendsOf(out) == IF out = NoneSent THEN <<>> ELSE <<"send">>

\* a handler that sends first and writes its files afterwards
SendThenSave(writes, out) == SendsOf(out) \o writes

\* the order of the handlers that write: savePlayerData and saveGuilds are
\* called before the first send statement
SaveThenSend(writes, out) == writes \o SendsOf(out)

\* the groups the session of connection c leads
Led(c) ==
    IF username[c] = NoUser \/ ~MapHas(connectedPlayers, username[c]) THEN {}
    ELSE LET player == connectedPlayers[username[c]]
         IN {k \in {"party"} : /\ Truthy(player.partyId)
                                /\ MapHas(parties, player.partyId)
                                /\ parties[player.partyId].leader = username[c]}
            \cup
            {k \in {"guild"} : /\ Truthy(player.guildId)
                                /\ MapHas(guilds, player.guildId)
                                /\ guilds[player.guildId].leader = username[c]}

\* the record kept of an event: the socket, the message, and the groups its
\* sender led when it arrived
Event(c, m) == [conn |-> c, msg |-> m, led |-> Led(c)]

\* ws.send(JSON.stringify(m)) on connection c
Send(out, c, m) == [out EXCEPT ![c] = Append(@, m)]

\* player.ws.readyState === WebSocket.OPEN
IsOpen(c) == readyState[c] = "OPEN"

\* loadPlayerData(u): null when data.json is absent
HasData(u) == u \in DOMAIN dataFile
loadPlayerData(u) == dataFile[u]

\* savePlayerData(u, data), as the new contents of the files
savePlayerData(files, u, data) == MapSet(files, u, JsonRoundTrip(data))

\* broadcastToMap(mapId, message, excludeUsername) over registry cp
broadcastToMap(out, cp, mapId, message, excludeUsername) ==
    [c \in Conns |->
        out[c] \o Repeat(message,
            Cardinality({u \in DOMAIN cp :
                /\ cp[u].mapId = mapId
                /\ u # excludeUsername
                /\ cp[u].ws = c
                /\ IsOpen(c)}))]

\* the members of a list that are online on connection c, with multiplicity
MemberHits(cp, members, excludeUsername, c) ==
    Cardinality({i \in 1 .. Len(members) :
        /\ members[i] # excludeUsername
        /\ MapHas(cp, members[i])
        /\ cp[members[i]].ws = c
        /\ IsOpen(c)})

\* broadcastToParty(partyId, message, excludeUsername) over pt and cp
broadcastToParty(out, cp, pt, partyId, message, excludeUsername) ==
    IF ~MapHas(pt, partyId) THEN out
    ELSE [c \in Conns |->
            out[c] \o Repeat(message,
                MemberHits(cp, pt[partyId].members, excludeUsername, c))]

\* the loop "for (const member of guild.members) ... send" of the guild handlers
sendToMembers(out, cp, members, message) ==
    [c \in Conns |-> out[c] \o Repeat(message, MemberHits(cp, members, NoUser, c))]

\* the guildName of a guildCreate message that carries none (undefined)
NoName == "undefined"

\* guild.name, undefined where the object has no such property
NameOf(guild) == IF "name" \in DOMAIN guild THEN guild.name ELSE NoName

\* JSON.stringify of one guild: a name that is undefined is left out
GuildJson(guild) ==
    IF NameOf(guild) = NoName
    THEN [leader |-> guild.leader, members |-> guild.members]
    ELSE [name |-> guild.name, leader |-> guild.leader, members |-> guild.members]

\* a saveGuilds that writes an empty table
saveNoGuilds(g) == EmptyMap

\* saveGuilds(): guilds.json := JSON.stringify(Object.fromEntries(guilds));
\* the file is read back with Number(id) as the key of each entry
saveGuilds(g) == [id \in DOMAIN g |-> GuildJson(g[id])]

\* the record the first revision of createAccount writes: no guildId
DefaultRecordNoGuild(password) ==
    [password |-> password, gold |-> 0, mapId |-> 1, x |-> 0, y |-> 0]

\* the record createAccount writes
DefaultRecord(password) ==
    [password |-> password, gold |-> 0, mapId |-> 1, x |-> 0, y |-> 0,
     guildId |-> Null]

Init ==
    /\ readyState = [c \in Conns |-> "NONE"]
    /\ username = [c \in Conns |-> NoUser]
    /\ playerDirs = {}
    /\ dataFile = EmptyMap
    /\ connectedPlayers = EmptyMap
    /\ parties = EmptyMap
    /\ nextPartyId = 1
    /\ guilds = EmptyMap
    /\ nextGuildId = 1
    /\ guildFile = EmptyMap
    /\ sent = NoneSent
    /\ last = [conn |-> 0, msg |-> [type |-> "start"], led |-> {}]
    /\ effects = <<>>
    /\ invited = {}

\* wss.on('connection'): connections are numbered in order of arrival
Connection(c) ==
    /\ c <= MaxConns
    /\ readyState[c] = "NONE"
    /\ \A d \in Conns : d < c => readyState[d] # "NONE"
    /\ readyState' = [readyState EXCEPT ![c] = "OPEN"]
    /\ username' = [username EXCEPT ![c] = NoUser]
    /\ sent' = NoneSent
    /\ last' = Event(c, [type |-> "connection"])
    /\ UNCHANGED <<playerDirs, dataFile, connectedPlayers, parties, nextPartyId,
                   guilds, nextGuildId, guildFile>>
    /\ effects' = <<>>
    /\ UNCHANGED invited

\* data.type === 'ping'
Ping(c) ==
    /\ IsOpen(c)
    /\ sent' = Send(NoneSent, c, [type |-> "pong", timestamp |-> 0])
    /\ last' = Event(c, [type |-> "ping", timestamp |-> 0])
    /\ UNCHANGED <<readyState, username, playerDirs, dataFile, connectedPlayers,
                   parties, nextPartyId, guilds, nextGuildId, guildFile>>
    /\ effects' = SendsOf(sent')
    /\ UNCHANGED invited

\* data.type === 'createAccount'
CreateAccount(c, newUsername, password) ==
    /\ IsOpen(c)
    /\ last' = Event(c, [type |-> "createAccount",
                                     username |-> newUsername, password |-> password])
    /\ IF newUsername \in playerDirs
       THEN /\ sent' = Send(NoneSent, c, [type |-> "createAccountResponse",
                                          success |-> FALSE, error |-> "Username exists"])
            /\ UNCHANGED <<playerDirs, dataFile>>
       ELSE /\ playerDirs' = playerDirs \cup {newUsername}
            /\ dataFile' = savePlayerData(dataFile, newUsername, DefaultRecord(password))
            /\ sent' = Send(NoneSent, c, [type |-> "createAccountResponse",
                                          success |-> TRUE])
    /\ UNCHANGED <<readyState, username, connectedPlayers, parties, nextPartyId,
                   guilds, nextGuildId, guildFile>>
    /\ effects' = IF newUsername \in playerDirs THEN SendsOf(sent')
                   ELSE SaveThenSend(<<"savePlayerData">>, sent')
    /\ UNCHANGED invited

\* the session login stores in connectedPlayers
NewSession(c, playerData) ==
    [ws |-> c,
     mapId |-> Or(Field(playerData, "mapId"), 1),
     x |-> Or(Field(playerData, "x"), 0),
     y |-> Or(Field(playerData, "y"), 0),
     direction |-> 2,
     partyId |-> Null,
     guildId |-> Field(playerData, "guildId")]

\* playersOnMap of the login handler (as a set: the order of the list is the
\* registry's insertion order, which nothing depends on)
PlayersOnMap(cp, u, mapId) ==
    {[username |-> v, mapId |-> cp[v].mapId, x |-> cp[v].x, y |-> cp[v].y,
      direction |-> cp[v].direction] : v \in {w \in DOMAIN cp : w # u /\ cp[w].mapId = mapId}}

\* the login handler without its "already logged in" check
AlreadyLoggedInUnchecked(loginUsername) == FALSE

\* `connectedPlayers.has(loginUsername)` of the login handler
AlreadyLoggedIn(loginUsername) == MapHas(connectedPlayers, loginUsername)

\* the login handler comparing no password
PasswordMatchesAny(loginUsername, password) == HasData(loginUsername)

\* `playerData && playerData.password === password` of the login handler
PasswordMatches(loginUsername, password) ==
    /\ HasData(loginUsername)
    /\ "password" \in DOMAIN loadPlayerData(loginUsername)
    /\ loadPlayerData(loginUsername).password = password

\* data.type === 'login'
Login(c, loginUsername, password) ==
    /\ IsOpen(c)
    /\ last' = Event(c, [type |-> "login",
                                     username |-> loginUsername, password |-> password])
    /\ IF PasswordMatches(loginUsername, password)
       THEN IF AlreadyLoggedIn(loginUsername)
            THEN /\ sent' = Send(NoneSent, c, [type |-> "loginResponse", success |-> FALSE,
                                               error |-> "User already logged in"])
                 /\ UNCHANGED <<username, connectedPlayers>>
            ELSE LET playerData == loadPlayerData(loginUsername)
                     cp == MapSet(connectedPlayers, loginUsername, NewSession(c, playerData))
                     rawMap == Field(playerData, "mapId")
                     out1 == Send(NoneSent, c, [type |-> "loginResponse", success |-> TRUE])
                     out2 == Send(out1, c, [type |-> "playerList",
                                            players |-> PlayersOnMap(cp, loginUsername, rawMap)])
                 IN /\ username' = [username EXCEPT ![c] = loginUsername]
                    /\ connectedPlayers' = cp
                    /\ sent' = broadcastToMap(out2, cp, rawMap,
                                   [type |-> "playerJoin", username |-> loginUsername,
                                    mapId |-> rawMap, x |-> Field(playerData, "x"),
                                    y |-> Field(playerData, "y"), direction |-> 2],
                                   loginUsername)
       ELSE /\ sent' = Send(NoneSent, c, [type |-> "loginResponse", success |-> FALSE,
                                          error |-> "Invalid username/password"])
            /\ UNCHANGED <<username, connectedPlayers>>
    /\ UNCHANGED <<readyState, playerDirs, dataFile, parties, nextPartyId,
                   guilds, nextGuildId, guildFile>>
    /\ effects' = SendsOf(sent')
    /\ UNCHANGED invited

\* the saveData handler of the first revision: any named username is saved
IsAnyUsername(c, saveUsername) == TRUE

\* `saveUsername === username` of the saveData handler
IsOwnUsername(c, saveUsername) == saveUsername = username[c]

\* the saveData handler of the port-8080 revision: the payload replaces the record
MergeDataOverwrite(storedData, playerData) == playerData

\* `Object.assign(storedData, playerData)` of the saveData handler
MergeData(storedData, playerData) == ObjectAssign(storedData, playerData)

\* playerData.mapId && playerData.x != null && playerData.y != null
HasPosition(playerData) ==
    /\ Truthy(Field(playerData, "mapId"))
    /\ Field(playerData, "x") \notin {Null, Undefined}
    /\ Field(playerData, "y") \notin {Null, Undefined}

\* data.type === 'saveData'
SaveData(c, saveUsername, playerData) ==
    /\ IsOpen(c)
    /\ last' = Event(c, [type |-> "saveData", username |-> saveUsername,
                                     playerData |-> playerData])
    /\ IF IsOwnUsername(c, saveUsername)
       THEN LET storedData == IF HasData(saveUsername) THEN loadPlayerData(saveUsername)
                              ELSE EmptyMap
                player == connectedPlayers[username[c]]
                moved == [player EXCEPT
                            !.mapId = playerData.mapId,
                            !.x = playerData.x,
                            !.y = playerData.y,
                            !.direction = Or(Field(playerData, "direction"), player.direction)]
                cp == [connectedPlayers EXCEPT ![username[c]] = moved]
            IN /\ dataFile' = savePlayerData(dataFile, saveUsername,
                                             MergeData(storedData, playerData))
               /\ playerDirs' = playerDirs \cup {saveUsername}
               /\ IF HasPosition(playerData) /\ MapHas(connectedPlayers, username[c])
                  THEN /\ connectedPlayers' = cp
                       /\ sent' = broadcastToMap(NoneSent, cp, moved.mapId,
                                      [type |-> "playerMove", username |-> username[c],
                                       x |-> moved.x, y |-> moved.y,
                                       direction |-> moved.direction],
                                      username[c])
                  ELSE /\ sent' = NoneSent
                       /\ UNCHANGED connectedPlayers
       ELSE /\ sent' = NoneSent
            /\ UNCHANGED <<playerDirs, dataFile, connectedPlayers>>
    /\ UNCHANGED <<readyState, username, parties, nextPartyId, guilds, nextGuildId,
                   guildFile>>
    /\ effects' = IF IsOwnUsername(c, saveUsername)
                   THEN SaveThenSend(<<"savePlayerData">>, sent') ELSE <<>>
    /\ UNCHANGED invited

\* data.type === 'loadData'
LoadData(c, loadUsername) ==
    /\ IsOpen(c)
    /\ last' = Event(c, [type |-> "loadData", username |-> loadUsername])
    /\ IF loadUsername = username[c]
       THEN IF HasData(loadUsername)
            THEN sent' = Send(NoneSent, c, [type |-> "loadDataResponse", success |-> TRUE,
                                            data |-> loadPlayerData(loadUsername)])
            ELSE sent' = Send(NoneSent, c, [type |-> "loadDataResponse", success |-> FALSE,
                                            error |-> "No data found"])
       ELSE sent' = NoneSent
    /\ UNCHANGED <<readyState, username, playerDirs, dataFile, connectedPlayers,
                   parties, nextPartyId, guilds, nextGuildId, guildFile>>
    /\ effects' = SendsOf(sent')
    /\ UNCHANGED invited

\* `mapId === player.mapId` of the playerMove handler
MoveAccepted(player, mapId) == mapId = player.mapId

\* data.type === 'playerMove' && username
PlayerMove(c, mapId, pos) ==
    /\ IsOpen(c)
    /\ last' = Event(c, [type |-> "playerMove", mapId |-> mapId,
                                     x |-> pos[1], y |-> pos[2], direction |-> pos[3]])
    /\ IF /\ username[c] # NoUser
          /\ MapHas(connectedPlayers, username[c])
          /\ MoveAccepted(connectedPlayers[username[c]], mapId)
       THEN LET cp == [connectedPlayers EXCEPT ![username[c]] =
                          [@ EXCEPT !.x = pos[1], !.y = pos[2], !.direction = pos[3]]]
            IN /\ connectedPlayers' = cp
               /\ sent' = broadcastToMap(NoneSent, cp, mapId,
                              [type |-> "playerMove", username |-> username[c],
                               x |-> pos[1], y |-> pos[2], direction |-> pos[3]],
                              username[c])
       ELSE /\ sent' = NoneSent
            /\ UNCHANGED connectedPlayers
    /\ UNCHANGED <<readyState, username, playerDirs, dataFile, parties, nextPartyId,
                   guilds, nextGuildId, guildFile>>
    /\ effects' = SendsOf(sent')
    /\ UNCHANGED invited

\* scopes and targetIds of chat messages
Scopes == {"global", "party", "guild"}
ChatTargets == {Undefined, 1}

\* data.type === 'chat' && username
Chat(c, scope, targetId) ==
    /\ IsOpen(c)
    /\ last' = Event(c, [type |-> "chat", scope |-> scope,
                                     targetId |-> targetId])
    /\ LET m == [type |-> "chat", scope |-> scope, username |-> username[c]]
       IN IF username[c] = NoUser THEN sent' = NoneSent
          ELSE IF scope = "global"
               THEN sent' = [d \in Conns |-> IF IsOpen(d) THEN <<m>> ELSE <<>>]
          ELSE IF scope = "party" /\ Truthy(targetId)
               THEN sent' = broadcastToParty(NoneSent, connectedPlayers, parties,
                                             targetId, m, NoUser)
          ELSE IF scope = "guild" /\ Truthy(targetId) /\ MapHas(guilds, targetId)
               THEN sent' = sendToMembers(NoneSent, connectedPlayers,
                                          guilds[targetId].members, m)
          ELSE sent' = NoneSent
    /\ UNCHANGED <<readyState, username, playerDirs, dataFile, connectedPlayers,
                   parties, nextPartyId, guilds, nextGuildId, guildFile>>
    /\ effects' = SendsOf(sent')
    /\ UNCHANGED invited

\* data.type === 'partyInvite' && username
PartyInvite(c, targetUsername) ==
    /\ IsOpen(c)
    /\ last' = Event(c, [type |-> "partyInvite",
                                     targetUsername |-> targetUsername])
    /\ IF /\ username[c] # NoUser
          /\ MapHas(connectedPlayers, targetUsername)
          /\ IsOpen(connectedPlayers[targetUsername].ws)
       THEN sent' = Send(NoneSent, connectedPlayers[targetUsername].ws,
                         [type |-> "partyInvite", fromUsername |-> username[c]])
       ELSE sent' = NoneSent
    /\ UNCHANGED <<readyState, username, playerDirs, dataFile, connectedPlayers,
                   parties, nextPartyId, guilds, nextGuildId, guildFile>>
    /\ effects' = SendsOf(sent')
    /\ UNCHANGED invited

\* data.type === 'partyAccept' && username
PartyAccept(c, fromUsername) ==
    /\ IsOpen(c)
    /\ last' = Event(c, [type |-> "partyAccept",
                                     fromUsername |-> fromUsername])
    /\ IF username[c] # NoUser /\ MapHas(connectedPlayers, fromUsername)
       THEN LET leader == connectedPlayers[fromUsername]
                create == ~Truthy(leader.partyId)
                partyId == IF create THEN nextPartyId ELSE leader.partyId
                pt1 == IF create
                       THEN MapSet(parties, partyId,
                                   [leader |-> fromUsername, members |-> <<fromUsername>>])
                       ELSE parties
                cp1 == IF create
                       THEN [connectedPlayers EXCEPT ![fromUsername].partyId = partyId]
                       ELSE connectedPlayers
                join == MapHas(cp1, username[c]) /\ ~Truthy(cp1[username[c]].partyId)
                cp2 == [cp1 EXCEPT ![username[c]].partyId = partyId]
                pt2 == [pt1 EXCEPT ![partyId].members = Append(@, username[c])]
            IN /\ create => nextPartyId <= MaxPartyId
               /\ nextPartyId' = IF create THEN nextPartyId + 1 ELSE nextPartyId
               /\ IF join
                  THEN /\ connectedPlayers' = cp2
                       /\ parties' = pt2
                       /\ sent' = broadcastToParty(NoneSent, cp2, pt2, partyId,
                                      [type |-> "partyUpdate", partyId |-> partyId,
                                       members |-> pt2[partyId].members], NoUser)
                  ELSE /\ connectedPlayers' = cp1
                       /\ parties' = pt1
                       /\ sent' = NoneSent
       ELSE /\ sent' = NoneSent
            /\ UNCHANGED <<connectedPlayers, parties, nextPartyId>>
    /\ UNCHANGED <<readyState, username, playerDirs, dataFile, guilds, nextGuildId,
                   guildFile>>
    /\ effects' = SendsOf(sent')
    /\ UNCHANGED invited

\* a leave handler that never finds the member list empty
IsEmptiedNever(members) == FALSE

\* `party.members.length === 0` / `guild.members.length === 0`
IsEmptied(members) == Len(members) = 0

\* a succession that takes the last remaining member
SuccessorLast(members) == IF Len(members) > 0 THEN members[Len(members)] ELSE NoUser

\* `members[0] || null`: the leader chosen when the leader leaves
Successor(members) == IF Len(members) > 0 THEN members[1] ELSE NoUser

\* a leave that keeps the member list as it was
WithoutNobody(group, u) == group

\* the group after u has been filtered out of its members, leader reassigned
WithoutMember(group, u) ==
    LET members == FilterOut(group.members, u)
    IN [group EXCEPT !.members = members,
                     !.leader = IF group.leader = u THEN Successor(members) ELSE @]

\* data.type === 'partyLeave' && username
PartyLeave(c) ==
    /\ IsOpen(c)
    /\ last' = Event(c, [type |-> "partyLeave"])
    /\ IF /\ username[c] # NoUser
          /\ MapHas(connectedPlayers, username[c])
          /\ Truthy(connectedPlayers[username[c]].partyId)
          /\ MapHas(parties, connectedPlayers[username[c]].partyId)
       THEN LET partyId == connectedPlayers[username[c]].partyId
                party == WithoutMember(parties[partyId], username[c])
                cp == [connectedPlayers EXCEPT ![username[c]].partyId = Null]
            IN /\ connectedPlayers' = cp
               /\ IF IsEmptied(party.members)
                  THEN /\ parties' = MapDelete(parties, partyId)
                       /\ sent' = NoneSent
                  ELSE LET pt == [parties EXCEPT ![partyId] = party]
                       IN /\ parties' = pt
                          /\ sent' = broadcastToParty(NoneSent, cp, pt, partyId,
                                         [type |-> "partyUpdate", partyId |-> partyId,
                                          members |-> party.members,
                                          leader |-> party.leader], NoUser)
       ELSE /\ sent' = NoneSent
            /\ UNCHANGED <<connectedPlayers, parties>>
    /\ UNCHANGED <<readyState, username, playerDirs, dataFile, nextPartyId, guilds,
                   nextGuildId, guildFile>>
    /\ effects' = SendsOf(sent')
    /\ UNCHANGED invited

\* names given to guilds
GuildNames == {"g"}

\* data.type === 'guildCreate' && username
GuildCreate(c, guildName) ==
    /\ IsOpen(c)
    /\ last' = Event(c, [type |-> "guildCreate", guildName |-> guildName])
    /\ IF /\ username[c] # NoUser
          /\ MapHas(connectedPlayers, username[c])
          /\ ~Truthy(connectedPlayers[username[c]].guildId)
       THEN LET guildId == nextGuildId
                stored == IF HasData(username[c]) THEN loadPlayerData(username[c])
                          ELSE EmptyMap
                g == MapSet(guilds, guildId, [name |-> guildName, leader |-> username[c],
                                              members |-> <<username[c]>>])
            IN /\ nextGuildId <= MaxGuildId
               /\ nextGuildId' = nextGuildId + 1
               /\ guilds' = g
               /\ connectedPlayers' = [connectedPlayers EXCEPT ![username[c]].guildId = guildId]
               /\ dataFile' = savePlayerData(dataFile, username[c],
                                  ObjectAssign(stored, [guildId |-> guildId]))
               /\ playerDirs' = playerDirs \cup {username[c]}
               /\ guildFile' = saveGuilds(g)
               /\ sent' = Send(NoneSent, c, [type |-> "guildUpdate", guildId |-> guildId,
                                             name |-> guildName,
                                             members |-> <<username[c]>>,
                                             leader |-> username[c]])
       ELSE /\ sent' = NoneSent
            /\ UNCHANGED <<playerDirs, dataFile, connectedPlayers, guilds, nextGuildId,
                           guildFile>>
    /\ UNCHANGED <<readyState, username, parties, nextPartyId>>
    /\ effects' = IF nextGuildId' # nextGuildId
                   THEN SaveThenSend(<<"savePlayerData", "saveGuilds">>, sent') ELSE <<>>
    /\ UNCHANGED invited

\* a guildInvite handler that lets every guild member invite
MayInviteAsMember(c, targetUsername) ==
    /\ username[c] # NoUser
    /\ MapHas(connectedPlayers, username[c])
    /\ MapHas(connectedPlayers, targetUsername)
    /\ Truthy(connectedPlayers[username[c]].guildId)
    /\ MapHas(guilds, connectedPlayers[username[c]].guildId)

\* username && player && target && player.guildId &&
\* guilds.get(player.guildId)?.leader === username
MayInvite(c, targetUsername) ==
    /\ username[c] # NoUser
    /\ MapHas(connectedPlayers, username[c])
    /\ MapHas(connectedPlayers, targetUsername)
    /\ Truthy(connectedPlayers[username[c]].guildId)
    /\ MapHas(guilds, connectedPlayers[username[c]].guildId)
    /\ guilds[connectedPlayers[username[c]].guildId].leader = username[c]

\* data.type === 'guildInvite' && username
GuildInvite(c, targetUsername) ==
    /\ IsOpen(c)
    /\ last' = Event(c, [type |-> "guildInvite",
                                     targetUsername |-> targetUsername])
    /\ IF MayInvite(c, targetUsername)
       THEN LET guildId == connectedPlayers[username[c]].guildId
            IN sent' = Send(NoneSent, connectedPlayers[targetUsername].ws,
                            [type |-> "guildInvite", guildId |-> guildId,
                             guildName |-> NameOf(guilds[guildId]),
                             fromUsername |-> username[c]])
       ELSE sent' = NoneSent
    /\ UNCHANGED <<readyState, username, playerDirs, dataFile, connectedPlayers,
                   parties, nextPartyId, guilds, nextGuildId, guildFile>>
    /\ effects' = SendsOf(sent')
    /\ invited' = IF MayInvite(c, targetUsername) /\ IsOpen(connectedPlayers[targetUsername].ws)
                   THEN invited \cup {<<targetUsername, connectedPlayers[username[c]].guildId>>}
                   ELSE invited

\* data.type === 'guildAccept' && username
GuildAccept(c, guildId) ==
    /\ IsOpen(c)
    /\ last' = Event(c, [type |-> "guildAccept", guildId |-> guildId])
    /\ IF /\ username[c] # NoUser
          /\ MapHas(connectedPlayers, username[c])
          /\ ~Truthy(connectedPlayers[username[c]].guildId)
          /\ MapHas(guilds, guildId)
       THEN LET stored == IF HasData(username[c]) THEN loadPlayerData(username[c])
                          ELSE EmptyMap
                g == [guilds EXCEPT ![guildId].members = Append(@, username[c])]
                cp == [connectedPlayers EXCEPT ![username[c]].guildId = guildId]
            IN /\ connectedPlayers' = cp
               /\ guilds' = g
               /\ dataFile' = savePlayerData(dataFile, username[c],
                                  ObjectAssign(stored, [guildId |-> guildId]))
               /\ playerDirs' = playerDirs \cup {username[c]}
               /\ guildFile' = saveGuilds(g)
               /\ sent' = sendToMembers(NoneSent, cp, g[guildId].members,
                              [type |-> "guildUpdate", guildId |-> guildId,
                               name |-> NameOf(g[guildId]), members |-> g[guildId].members,
                               leader |-> g[guildId].leader])
       ELSE /\ sent' = NoneSent
            /\ UNCHANGED <<playerDirs, dataFile, connectedPlayers, guilds, guildFile>>
    /\ UNCHANGED <<readyState, username, parties, nextPartyId, nextGuildId>>
    /\ effects' = IF guilds' # guilds
                   THEN SaveThenSend(<<"savePlayerData", "saveGuilds">>, sent') ELSE <<>>
    /\ UNCHANGED invited

\* data.type === 'guildLeave' && username
GuildLeave(c) ==
    /\ IsOpen(c)
    /\ last' = Event(c, [type |-> "guildLeave"])
    /\ IF /\ username[c] # NoUser
          /\ MapHas(connectedPlayers, username[c])
          /\ Truthy(connectedPlayers[username[c]].guildId)
          /\ MapHas(guilds, connectedPlayers[username[c]].guildId)
       THEN LET guildId == connectedPlayers[username[c]].guildId
                guild == WithoutMember(guilds[guildId], username[c])
                stored == IF HasData(username[c]) THEN loadPlayerData(username[c])
                          ELSE EmptyMap
                cp == [connectedPlayers EXCEPT ![username[c]].guildId = Null]
                g == IF IsEmptied(guild.members) THEN MapDelete(guilds, guildId)
                     ELSE [guilds EXCEPT ![guildId] = guild]
            IN /\ connectedPlayers' = cp
               /\ dataFile' = savePlayerData(dataFile, username[c],
                                  ObjectAssign(stored, [guildId |-> Null]))
               /\ playerDirs' = playerDirs \cup {username[c]}
               /\ guilds' = g
               /\ guildFile' = saveGuilds(g)
               /\ sent' = sendToMembers(NoneSent, cp, guild.members,
                              [type |-> "guildUpdate", guildId |-> guildId,
                               name |-> NameOf(guild), members |-> guild.members,
                               leader |-> guild.leader])
       ELSE /\ sent' = NoneSent
            /\ UNCHANGED <<playerDirs, dataFile, connectedPlayers, guilds, guildFile>>
    /\ UNCHANGED <<readyState, username, parties, nextPartyId, nextGuildId>>
    /\ effects' = IF connectedPlayers' # connectedPlayers
                   THEN SaveThenSend(<<"savePlayerData", "saveGuilds">>, sent') ELSE <<>>
    /\ UNCHANGED invited

\* ws.on('close'): the socket is closed and its close handler runs
Close(c) ==
    /\ IsOpen(c)
    /\ readyState' = [readyState EXCEPT ![c] = "CLOSED"]
    /\ last' = Event(c, [type |-> "close"])
    /\ IF username[c] # NoUser /\ MapHas(connectedPlayers, username[c])
       THEN LET player == connectedPlayers[username[c]]
                closed == [d \in Conns |-> IF d = c THEN "CLOSED" ELSE readyState[d]]
                out1 == [d \in Conns |->
                            Repeat([type |-> "playerLeave", username |-> username[c]],
                                Cardinality({u \in DOMAIN connectedPlayers :
                                    /\ connectedPlayers[u].mapId = player.mapId
                                    /\ connectedPlayers[u].ws = d
                                    /\ closed[d] = "OPEN"}))]
                inParty == Truthy(player.partyId) /\ MapHas(parties, player.partyId)
                party == WithoutMember(parties[player.partyId], username[c])
                pt == IF ~inParty THEN parties
                      ELSE IF IsEmptied(party.members) THEN MapDelete(parties, player.partyId)
                      ELSE [parties EXCEPT ![player.partyId] = party]
                out2 == IF inParty /\ ~IsEmptied(party.members)
                        THEN [d \in Conns |-> out1[d] \o
                                Repeat([type |-> "partyUpdate", partyId |-> player.partyId,
                                        members |-> party.members, leader |-> party.leader],
                                    Cardinality({i \in 1 .. Len(party.members) :
                                        /\ MapHas(connectedPlayers, party.members[i])
                                        /\ connectedPlayers[party.members[i]].ws = d
                                        /\ closed[d] = "OPEN"}))]
                        ELSE out1
            IN /\ parties' = pt
               /\ connectedPlayers' = MapDelete(connectedPlayers, username[c])
               /\ sent' = out2
       ELSE /\ sent' = NoneSent
            /\ UNCHANGED <<connectedPlayers, parties>>
    /\ UNCHANGED <<username, playerDirs, dataFile, nextPartyId, guilds, nextGuildId,
                   guildFile>>
    /\ effects' = SendsOf(sent')
    /\ invited' = IF username[c] # NoUser /\ MapHas(connectedPlayers, username[c])
                   THEN {p \in invited : p[1] # username[c]} ELSE invited

\* the process stops and is started again: the module-level state is built
\* anew (lines 400-409), the guild table is read back from guilds.json, the
\* player files stay, and every socket of the old process is gone
Restart ==
    /\ readyState' = [c \in Conns |-> "NONE"]
    /\ username' = [c \in Conns |-> NoUser]
    /\ connectedPlayers' = EmptyMap
    /\ parties' = EmptyMap
    /\ nextPartyId' = 1
    /\ guilds' = guildFile
    /\ nextGuildId' = 1
    /\ sent' = NoneSent
    /\ last' = [conn |-> 0, msg |-> [type |-> "restart"], led |-> {}]
    /\ UNCHANGED <<playerDirs, dataFile, guildFile>>
    /\ effects' = <<>>
    /\ invited' = {}

\* a message that JSON.parse rejects: the handler returns at once
Unparseable(c) ==
    /\ IsOpen(c)
    /\ last' = Event(c, [type |-> "unparseable"])
    /\ sent' = NoneSent
    /\ effects' = <<>>
    /\ UNCHANGED <<readyState, username, playerDirs, dataFile, connectedPlayers,
                   parties, nextPartyId, guilds, nextGuildId, guildFile, invited>>

\* a message whose type no branch of the handler names: every `if` fails
UnknownType(c) ==
    /\ IsOpen(c)
    /\ last' = Event(c, [type |-> "unknown"])
    /\ sent' = NoneSent
    /\ effects' = <<>>
    /\ UNCHANGED <<readyState, username, playerDirs, dataFile, connectedPlayers,
                   parties, nextPartyId, guilds, nextGuildId, guildFile, invited>>

\* {type: 'login'} without username: loadPlayerData(undefined) calls
\* path.join(PLAYER_FOLDER, undefined, 'data.json'), which throws a TypeError;
\* nothing catches it, so the process ends, and what follows is the process
\* started again (as in Restart)
LoginNoUsername(c) ==
    /\ IsOpen(c)
    /\ last' = Event(c, [type |-> "login"])
    /\ readyState' = [d \in Conns |-> "NONE"]
    /\ username' = [d \in Conns |-> NoUser]
    /\ connectedPlayers' = EmptyMap
    /\ parties' = EmptyMap
    /\ nextPartyId' = 1
    /\ guilds' = guildFile
    /\ nextGuildId' = 1
    /\ sent' = NoneSent
    /\ effects' = <<>>
    /\ invited' = {}
    /\ UNCHANGED <<playerDirs, dataFile, guildFile>>

\* the handlers as the clients of a specification send them while the ids
\* handed out stay within maxId, or the member lists within maxLen
PartyAcceptUpTo(c, fromUsername, maxId) ==
    PartyAccept(c, fromUsername) /\ nextPartyId' <= maxId + 1
GuildCreateUpTo(c, guildName, maxId) ==
    GuildCreate(c, guildName) /\ nextGuildId' <= maxId + 1
GuildAcceptUpTo(c, guildId, maxLen) ==
    GuildAccept(c, guildId) /\ \A k \in DOMAIN guilds' : Len(guilds'[k].members) <= maxLen

(***************************************************************************)
(* Spec: sessions, durable records and map presence.  Two clients' worth   *)
(* of usernames send the authentication, data and movement messages.  The  *)
(* party and guild handlers never write readyState, username, the registry *)
(* keys, positions or the record fields read here, and are left to         *)
(* SpecGroups.                                                             *)
(***************************************************************************)
SessionUsers == {"alice", "bob"}

Next ==
    \/ \E c \in Conns : Connection(c)
    \/ \E c \in Conns : Ping(c)
    \/ \E c \in Conns, u \in SessionUsers, p \in Passwords : CreateAccount(c, u, p)
    \/ \E c \in Conns, u \in SessionUsers, p \in Passwords : Login(c, u, p)
    \/ \E c \in Conns, u \in SessionUsers, d \in Payloads : SaveData(c, u, d)
    \/ \E c \in Conns, u \in SessionUsers : LoadData(c, u)
    \/ \E c \in Conns, m \in Maps, pos \in Positions : PlayerMove(c, m, pos)
    \/ \E c \in Conns : Close(c)

Spec == Init /\ [][Next]_vars

(***************************************************************************)
(* SpecGroups: parties and guilds.  It starts where the three users, whose *)
(* accounts createAccount wrote, have each connected and logged in (the    *)
(* state after Connection and Login for alice on socket 1, bob on 2 and    *)
(* carol on 3, with no message in flight); from there they form and leave  *)
(* groups, disconnect and log in again on the sockets still open.          *)
(* Positions and the record fields other than guildId are not read by the  *)
(* group handlers.  guildInvite writes none of the tables (its handler     *)
(* only sends); it is sent in SpecRoster and SpecChat.                     *)
(***************************************************************************)
UserOf(c) == IF c = 1 THEN "alice" ELSE IF c = 2 THEN "bob" ELSE "carol"
ConnOf(u) == CHOOSE c \in Conns : UserOf(c) = u

InitGroups ==
    /\ readyState = [c \in Conns |-> "OPEN"]
    /\ username = [c \in Conns |-> UserOf(c)]
    /\ playerDirs = Users
    /\ dataFile = [u \in Users |-> JsonRoundTrip(DefaultRecord("pw1"))]
    /\ connectedPlayers =
           [u \in Users |-> NewSession(ConnOf(u), JsonRoundTrip(DefaultRecord("pw1")))]
    /\ parties = EmptyMap
    /\ nextPartyId = 1
    /\ guilds = EmptyMap
    /\ nextGuildId = 1
    /\ guildFile = EmptyMap
    /\ sent = NoneSent
    /\ last = [conn |-> 0, msg |-> [type |-> "start"], led |-> {}]
    /\ effects = <<>>
    /\ invited = {}

NextGroups ==
    \/ \E c \in Conns, u \in Users : Login(c, u, "pw1")
    \/ \E c \in Conns, u \in Users : PartyInvite(c, u)
    \/ \E c \in Conns, u \in Users : PartyAcceptUpTo(c, u, GroupsMaxId)
    \/ \E c \in Conns : PartyLeave(c)
    \/ \E c \in Conns, n \in GuildNames : GuildCreateUpTo(c, n, GroupsMaxId)
    \/ \E c \in Conns, g \in 1 .. GroupsMaxId : GuildAccept(c, g)
    \/ \E c \in Conns : GuildLeave(c)
    \/ \E c \in Conns : Close(c)

SpecGroups == InitGroups /\ [][NextGroups]_vars

(***************************************************************************)
(* SpecParties: parties alone, with two party ids.  It starts where        *)
(* SpecGroups starts; the three users invite, accept, leave, disconnect    *)
(* and log in again.  The guild handlers do not read or write the party    *)
(* table or partyId.                                                       *)
(***************************************************************************)
NextParties ==
    \/ \E c \in Conns, u \in Users : Login(c, u, "pw1")
    \/ \E c \in Conns, u \in Users : PartyInvite(c, u)
    \/ \E c \in Conns, u \in Users : PartyAccept(c, u)
    \/ \E c \in Conns : PartyLeave(c)
    \/ \E c \in Conns : Close(c)

SpecParties == InitGroups /\ [][NextParties]_vars

(***************************************************************************)
(* SpecGuilds: guild membership and its mirror in the durable records.     *)
(* It starts where the accounts of two users exist and the process has     *)
(* just been restarted (the state after Connection, two CreateAccount and  *)
(* Restart); the users connect, log in, create, join and leave guilds,     *)
(* save a payload that names guildId, disconnect, and the process is       *)
(* restarted again.  The party handlers and positions are not read by the     *)
(* guild handlers.                                                         *)
(***************************************************************************)
InitGuilds ==
    /\ readyState = [c \in Conns |-> "NONE"]
    /\ username = [c \in Conns |-> NoUser]
    /\ playerDirs = SessionUsers
    /\ dataFile = [u \in SessionUsers |-> JsonRoundTrip(DefaultRecord("pw1"))]
    /\ connectedPlayers = EmptyMap
    /\ parties = EmptyMap
    /\ nextPartyId = 1
    /\ guilds = EmptyMap
    /\ nextGuildId = 1
    /\ guildFile = EmptyMap
    /\ sent = NoneSent
    /\ last = [conn |-> 0, msg |-> [type |-> "restart"], led |-> {}]
    /\ effects = <<>>
    /\ invited = {}

NextGuilds ==
    \/ \E c \in Conns : Connection(c)
    \/ \E c \in Conns, u \in SessionUsers : Login(c, u, "pw1")
    \/ \E c \in Conns, u \in SessionUsers : SaveData(c, u, GuildPayload)
    \/ \E c \in Conns, n \in GuildNames : GuildCreate(c, n)
    \/ \E c \in Conns, g \in 1 .. MaxGuildId : GuildAcceptUpTo(c, g, MaxMembers)
    \/ \E c \in Conns : GuildLeave(c)
    \/ \E c \in Conns : Close(c)
    \/ Restart

SpecGuilds == InitGuilds /\ [][NextGuilds]_vars

(***************************************************************************)
(* SpecChat: chat and the messages a connection sends before it logs in.   *)
(* It starts where SpecGuilds starts; two users connect, log in, form a    *)
(* party and a guild, invite, move, chat in every scope and disconnect.    *)
(***************************************************************************)
NextChat ==
    \/ \E c \in Conns : Connection(c)
    \/ \E c \in Conns, u \in SessionUsers : Login(c, u, "pw1")
    \/ \E c \in Conns, pos \in Positions : PlayerMove(c, 1, pos)
    \/ \E c \in Conns, sc \in Scopes, t \in ChatTargets : Chat(c, sc, t)
    \/ \E c \in Conns, u \in SessionUsers : PartyInvite(c, u)
    \/ \E c \in Conns, u \in SessionUsers : PartyAcceptUpTo(c, u, GroupsMaxId)
    \/ \E c \in Conns : PartyLeave(c)
    \/ \E c \in Conns, n \in GuildNames : GuildCreateUpTo(c, n, GroupsMaxId)
    \/ \E c \in Conns, u \in SessionUsers : GuildInvite(c, u)
    \/ \E c \in Conns, g \in 1 .. GroupsMaxId : GuildAccept(c, g)
    \/ \E c \in Conns : GuildLeave(c)
    \/ \E c \in Conns : Close(c)

SpecChat == InitGuilds /\ [][NextChat]_vars

(***************************************************************************)
(* SpecRoster: guild rosters and invitations.  It starts where SpecGroups  *)
(* starts; the three users create guilds with and without a name, invite,  *)
(* accept, leave, disconnect and log in again.  The party handlers and     *)
(* positions are not read by the guild handlers.                           *)
(***************************************************************************)
RosterNames == {"g", NoName}

NextRoster ==
    \/ \E c \in Conns, u \in Users : Login(c, u, "pw1")
    \/ \E c \in Conns, n \in RosterNames : GuildCreateUpTo(c, n, GroupsMaxId)
    \/ \E c \in Conns, u \in Users : GuildInvite(c, u)
    \/ \E c \in Conns, g \in 1 .. GroupsMaxId : GuildAccept(c, g)
    \/ \E c \in Conns : GuildLeave(c)
    \/ \E c \in Conns : Close(c)

SpecRoster == InitGroups /\ [][NextRoster]_vars

(***************************************************************************)
(* SpecSave: saved positions and the order of writes and sends.  It starts *)
(* where SpecGuilds starts; two users connect, log in, save payloads with  *)
(* a whole position and with a map alone, form and leave a guild and       *)
(* disconnect.  The party handlers read and write none of the fields       *)
(* saveData and the guild handlers touch.                                  *)
(***************************************************************************)
NextSave ==
    \/ \E c \in Conns : Connection(c)
    \/ \E c \in Conns, u \in SessionUsers : Login(c, u, "pw1")
    \/ \E c \in Conns, u \in SessionUsers, d \in SavePayloads : SaveData(c, u, d)
    \/ \E c \in Conns, n \in GuildNames : GuildCreateUpTo(c, n, GroupsMaxId)
    \/ \E c \in Conns, g \in 1 .. GroupsMaxId : GuildAccept(c, g)
    \/ \E c \in Conns : GuildLeave(c)
    \/ \E c \in Conns : Close(c)

SpecSave == InitGuilds /\ [][NextSave]_vars

(***************************************************************************)
(* SpecDropped: messages the handler has no use for.  It starts where      *)
(* SpecGroups starts; the users send text that is not JSON, messages of an *)
(* unknown type, and login, partyAccept and guildCreate without their      *)
(* field, and they leave guilds, disconnect, connect and log in again.     *)
(***************************************************************************)
NextDropped ==
    \/ \E c \in Conns : Connection(c)
    \/ \E c \in Conns, u \in Users : Login(c, u, "pw1")
    \/ \E c \in Conns : Unparseable(c)
    \/ \E c \in Conns : UnknownType(c)
    \/ \E c \in Conns : LoginNoUsername(c)
    \/ \E c \in Conns : PartyAccept(c, NoUser)
    \/ \E c \in Conns : GuildCreateUpTo(c, NoName, GroupsMaxId)
    \/ \E c \in Conns : GuildLeave(c)
    \/ \E c \in Conns : Close(c)

SpecDropped == InitGroups /\ [][NextDropped]_vars

(***************************************************************************)
(* SpecLive: the life of a connection.  Clients connect, create accounts,  *)
(* log in, ping and disconnect.  The server has no step of its own (the    *)
(* canonical revision arms no timer on a connection, lines 480-484); the   *)
(* event loop handles every event that arrives, and the fairness condition *)
(* says it keeps doing so while clients keep sending.                      *)
(***************************************************************************)
NextLive ==
    \/ \E c \in Conns : Connection(c)
    \/ \E c \in Conns : Ping(c)
    \/ \E c \in Conns, u \in SessionUsers : CreateAccount(c, u, "pw1")
    \/ \E c \in Conns, u \in SessionUsers, p \in Passwords : Login(c, u, p)
    \/ \E c \in Conns : Close(c)

SpecLive == Init /\ [][NextLive]_vars /\ WF_vars(NextLive)

(***************************************************************************)
(* Properties.  `last` names the event a step handled; unprimed variables   *)
(* are the state the handler started from.                                 *)
(***************************************************************************)
AlreadyOnlineResponse ==
    [type |-> "loginResponse", success |-> FALSE, error |-> "User already logged in"]
InvalidCredentialsResponse ==
    [type |-> "loginResponse", success |-> FALSE, error |-> "Invalid username/password"]
DuplicateUsernameResponse ==
    [type |-> "createAccountResponse", success |-> FALSE, error |-> "Username exists"]

\* the stored password of u is p
StoredPasswordIs(u, p) == u \in DOMAIN dataFile /\ dataFile[u].password = p

\* the number of messages of type t among those sent to connection c
CountSent(out, c, t) == Cardinality({i \in 1 .. Len(out[c]) : out[c][i].type = t})

\* No two open connections are logged in under the same username, and every
\* logged-in open connection owns the registry entry of its username.
C1_UniqueSession ==
    \A c \in Conns :
        (IsOpen(c) /\ username[c] # NoUser) =>
            /\ MapHas(connectedPlayers, username[c])
            /\ connectedPlayers[username[c]].ws = c
            /\ \A d \in Conns \ {c} : IsOpen(d) => username[d] # username[c]

\* A login with the right password for a username that is in the registry is
\* answered "User already logged in" and changes neither the registry nor any
\* connection's username.
C1_AlreadyOnlineStep ==
    (/\ last'.msg.type = "login"
     /\ StoredPasswordIs(last'.msg.username, last'.msg.password)
     /\ MapHas(connectedPlayers, last'.msg.username))
    => /\ sent'[last'.conn] = <<AlreadyOnlineResponse>>
       /\ connectedPlayers' = connectedPlayers
       /\ username' = username

\* C1: at most one session per username in every reachable state; a correct
\* login for a username already online fails with "User already logged in",
\* leaves the existing session unchanged and does not authenticate the
\* requesting connection.
C1_AtMostOneSession == []C1_UniqueSession /\ [][C1_AlreadyOnlineStep]_vars

\* a second connection was refused the username another open connection holds
C1_Witness ==
    /\ last.msg.type = "login"
    /\ sent[last.conn] = <<AlreadyOnlineResponse>>
    /\ username[last.conn] = NoUser
    /\ \E d \in Conns \ {last.conn} : IsOpen(d) /\ username[d] = last.msg.username

\* C2 (as claimed): a connection that has authenticated keeps its username for
\* good, and no two sessions of the registry share a connection.
C2_AuthenticatesOnce ==
    /\ [][\A c \in Conns : username[c] # NoUser => username'[c] = username[c]]_vars
    /\ [](\A u, v \in DOMAIN connectedPlayers :
            u # v => connectedPlayers[u].ws # connectedPlayers[v].ws)

\* one connection logged in twice: the registry holds two sessions on it
C2_Witness ==
    /\ last.msg.type = "login"
    /\ \E u, v \in DOMAIN connectedPlayers :
           /\ u # v
           /\ username[last.conn] = v
           /\ connectedPlayers[u].ws = last.conn
           /\ connectedPlayers[v].ws = last.conn

\* the step is a createAccount for a username without a directory
CreatesAccount == last'.msg.type = "createAccount" /\ last'.msg.username \notin playerDirs

\* the record of u' after the step is the default gameplay state
DefaultStateWritten(u, p) ==
    /\ u \in DOMAIN dataFile'
    /\ DOMAIN dataFile'[u] = {"password", "gold", "mapId", "x", "y", "guildId"}
    /\ dataFile'[u].password = p
    /\ dataFile'[u].gold = 0
    /\ dataFile'[u].mapId = 1
    /\ dataFile'[u].x = 0
    /\ dataFile'[u].y = 0
    /\ dataFile'[u].guildId = Null

C4_FailedAuthChangesNothing ==
    [][/\ (last'.msg.type = "createAccount" /\ last'.msg.username \in DOMAIN dataFile)
          => /\ sent'[last'.conn] = <<DuplicateUsernameResponse>>
             /\ dataFile' = dataFile
             /\ playerDirs' = playerDirs
             /\ connectedPlayers' = connectedPlayers
             /\ username' = username
       /\ (last'.msg.type = "login"
           /\ ~StoredPasswordIs(last'.msg.username, last'.msg.password))
          => /\ sent'[last'.conn] = <<InvalidCredentialsResponse>>
             /\ dataFile' = dataFile
             /\ playerDirs' = playerDirs
             /\ connectedPlayers' = connectedPlayers
             /\ username' = username]_vars

\* a login with the wrong password for an existing account was refused
C4_Witness ==
    /\ last.msg.type = "login"
    /\ HasData(last.msg.username)
    /\ dataFile[last.msg.username].password # last.msg.password
    /\ sent[last.conn] = <<InvalidCredentialsResponse>>
    /\ username[last.conn] = NoUser

\* the sessions other than u that are on map m and whose socket is d
OthersOnMap(cp, u, m, d) ==
    {w \in DOMAIN cp \ {u} : cp[w].mapId = m /\ cp[w].ws = d}

\* the step is a playerMove sent by a logged-in connection
MovesPlayer ==
    /\ last'.msg.type = "playerMove"
    /\ username[last'.conn] # NoUser
    /\ MapHas(connectedPlayers, username[last'.conn])

\* what C5 says of a playerMove step
C5_MoveStep ==
    MovesPlayer =>
        LET u == username[last'.conn]
            m == last'.msg
            note == [type |-> "playerMove", username |-> u, x |-> m.x, y |-> m.y,
                     direction |-> m.direction]
        IN IF m.mapId = connectedPlayers[u].mapId
           THEN /\ connectedPlayers' =
                       [connectedPlayers EXCEPT ![u].x = m.x, ![u].y = m.y,
                                                ![u].direction = m.direction]
                /\ \A d \in Conns :
                       sent'[d] = Repeat(note,
                           Cardinality(OthersOnMap(connectedPlayers, u, m.mapId, d)))
           ELSE /\ connectedPlayers' = connectedPlayers
                /\ sent' = NoneSent

\* C5 (as claimed): a playerMove is accepted exactly when its mapId is the
\* session's; when accepted the session's x, y and direction are updated and
\* every other session on that map is sent one playerMove, the sender and the
\* sessions on other maps none; otherwise nothing changes and nothing is sent.
C5_MoveBroadcast == [][C5_MoveStep]_vars

\* a move was accepted while a session left behind on a closed connection is
\* on the mover's map: that session was sent nothing
C5_Witness ==
    /\ last.msg.type = "playerMove"
    /\ username[last.conn] # NoUser
    /\ MapHas(connectedPlayers, username[last.conn])
    /\ connectedPlayers[username[last.conn]].x = last.msg.x
    /\ \E w \in DOMAIN connectedPlayers \ {username[last.conn]} :
           /\ connectedPlayers[w].mapId = last.msg.mapId
           /\ ~IsOpen(connectedPlayers[w].ws)
           /\ sent[connectedPlayers[w].ws] = <<>>

\* the step is a login that succeeds
LogsIn ==
    /\ last'.msg.type = "login"
    /\ StoredPasswordIs(last'.msg.username, last'.msg.password)
    /\ ~MapHas(connectedPlayers, last'.msg.username)

\* what C6 says of a successful login
C6_LoginStep ==
    LogsIn =>
        LET u == last'.msg.username
            c == last'.conn
            cp == connectedPlayers'
        IN /\ MapHas(cp, u)
           /\ \A d \in Conns :
                  CountSent(sent', d, "playerJoin") =
                      Cardinality(OthersOnMap(cp, u, cp[u].mapId, d))
           /\ \E i \in 1 .. Len(sent'[c]) :
                  /\ sent'[c][i].type = "playerList"
                  /\ {pl.username : pl \in sent'[c][i].players} =
                         {w \in DOMAIN cp \ {u} : cp[w].mapId = cp[u].mapId}

\* C6 (as claimed): on a successful login every other session on the new
\* session's map is sent one playerJoin, and the new session is sent a
\* playerList of exactly the other sessions on that map.
C6_LoginPresence == [][C6_LoginStep]_vars

\* a login succeeded while a session left behind on a closed connection is on
\* the new session's map: it is in the playerList and was sent no playerJoin
C6_Witness ==
    /\ last.msg.type = "login"
    /\ username[last.conn] = last.msg.username
    /\ MapHas(connectedPlayers, last.msg.username)
    /\ \E w \in DOMAIN connectedPlayers \ {last.msg.username} :
           /\ connectedPlayers[w].mapId = connectedPlayers[last.msg.username].mapId
           /\ ~IsOpen(connectedPlayers[w].ws)
           /\ sent[connectedPlayers[w].ws] = <<>>
           /\ \E i \in 1 .. Len(sent[last.conn]) :
                  /\ sent[last.conn][i].type = "playerList"
                  /\ w \in {pl.username : pl \in sent[last.conn][i].players}

\* C7: a saveData naming a username other than the one logged in on the
\* connection (none, when it is not logged in) changes no record, no session
\* and sends nothing; a saveData naming the connection's own username changes
\* no other username's record.
C7_SaveOnlyOwnRecord ==
    [][last'.msg.type = "saveData" =>
        IF last'.msg.username # username[last'.conn]
        THEN /\ dataFile' = dataFile
             /\ playerDirs' = playerDirs
             /\ connectedPlayers' = connectedPlayers
             /\ sent' = NoneSent
        ELSE /\ DOMAIN dataFile' = DOMAIN dataFile
             /\ \A v \in DOMAIN dataFile \ {last'.msg.username} :
                    dataFile'[v] = dataFile[v]]_vars

\* a logged-in connection named another user's account in saveData
C7_Witness ==
    /\ last.msg.type = "saveData"
    /\ username[last.conn] # NoUser
    /\ last.msg.username # username[last.conn]
    /\ HasData(last.msg.username)
    /\ sent = NoneSent

\* after a saveData for the connection's own username, the record holds the
\* payload's value in every field the payload names and its former value in
\* every other field
C8_SaveStep ==
    (last'.msg.type = "saveData" /\ last'.msg.username = username[last'.conn]) =>
        LET u == last'.msg.username
            payload == last'.msg.playerData
        IN /\ u \in DOMAIN dataFile'
           /\ DOMAIN dataFile'[u] = DOMAIN dataFile[u] \cup DOMAIN payload
           /\ \A f \in DOMAIN payload : dataFile'[u][f] = payload[f]
           /\ \A f \in DOMAIN dataFile[u] \ DOMAIN payload :
                  dataFile'[u][f] = dataFile[u][f]

\* a loadData for the connection's own username answers with the stored record
C8_LoadStep ==
    (last'.msg.type = "loadData" /\ last'.msg.username = username[last'.conn]) =>
        /\ dataFile' = dataFile
        /\ sent'[last'.conn] =
               <<[type |-> "loadDataResponse", success |-> TRUE,
                  data |-> dataFile[last'.msg.username]]>>

\* C8: saveData then loadData for the logged-in username returns a record with
\* every field of the payload at its saved value and every other field as it
\* was before the save.
C8_SaveLoadRoundTrip == [][C8_SaveStep /\ C8_LoadStep]_vars

\* loadData returned a record with the saved gold and the default position
C8_Witness ==
    /\ last.msg.type = "loadData"
    /\ Len(sent[last.conn]) = 1
    /\ sent[last.conn][1].type = "loadDataResponse"
    /\ sent[last.conn][1].success
    /\ sent[last.conn][1].data.gold = GoldPayload.gold
    /\ sent[last.conn][1].data.mapId = 1
    /\ sent[last.conn][1].data.guildId = Null

\* the members other than u, in list order
Remaining(members, u) ==
    LET Stays(m) == m # u
    IN SelectSeq(members, Stays)

\* the step removes the session of last'.conn from its party: a partyLeave, or
\* the close of its connection
LeavesParty ==
    /\ last'.msg.type \in {"partyLeave", "close"}
    /\ username[last'.conn] # NoUser
    /\ MapHas(connectedPlayers, username[last'.conn])
    /\ connectedPlayers[username[last'.conn]].partyId \in DOMAIN parties

\* the step removes the session of last'.conn from its guild
LeavesGuild ==
    /\ last'.msg.type = "guildLeave"
    /\ username[last'.conn] # NoUser
    /\ MapHas(connectedPlayers, username[last'.conn])
    /\ connectedPlayers[username[last'.conn]].guildId \in DOMAIN guilds

\* every party and every guild of the tables has a member
C9_GroupsNonEmpty ==
    /\ \A p \in DOMAIN parties : Len(parties[p].members) > 0
    /\ \A g \in DOMAIN guilds : Len(guilds[g].members) > 0

\* a leave that removes the last member deletes the group in the same step
C9_LastLeaveStep ==
    /\ LeavesParty =>
           LET u == username[last'.conn]
               p == connectedPlayers[u].partyId
           IN Remaining(parties[p].members, u) = <<>> => p \notin DOMAIN parties'
    /\ LeavesGuild =>
           LET u == username[last'.conn]
               g == connectedPlayers[u].guildId
           IN Remaining(guilds[g].members, u) = <<>> => g \notin DOMAIN guilds'

\* C9: every party and guild in its table has a non-empty member list, and a
\* partyLeave, guildLeave or disconnect that removes the last member deletes
\* the group in the same step.
C9_NoEmptyGroup == []C9_GroupsNonEmpty /\ [][C9_LastLeaveStep]_vars

\* the leader and sole member of the guild left it, and the guild is gone
C9_Witness ==
    /\ last.msg.type = "guildLeave"
    /\ "guild" \in last.led
    /\ nextGuildId > 1
    /\ guilds = EmptyMap
    /\ guildFile = EmptyMap
    /\ connectedPlayers[username[last.conn]].guildId = Null

\* the leader of every party and guild is one of its members
C10_LeaderIsMember ==
    /\ \A p \in DOMAIN parties :
           \E i \in 1 .. Len(parties[p].members) :
               parties[p].members[i] = parties[p].leader
    /\ \A g \in DOMAIN guilds :
           \E i \in 1 .. Len(guilds[g].members) :
               guilds[g].members[i] = guilds[g].leader

\* when the leader leaves, the first remaining member leads, or the group is
\* dissolved when nobody remains
C10_SuccessionStep ==
    /\ LeavesParty =>
           LET u == username[last'.conn]
               p == connectedPlayers[u].partyId
               rest == Remaining(parties[p].members, u)
           IN parties[p].leader = u =>
                  IF rest = <<>> THEN p \notin DOMAIN parties'
                  ELSE /\ p \in DOMAIN parties'
                       /\ parties'[p].members = rest
                       /\ parties'[p].leader = rest[1]
    /\ LeavesGuild =>
           LET u == username[last'.conn]
               g == connectedPlayers[u].guildId
               rest == Remaining(guilds[g].members, u)
           IN guilds[g].leader = u =>
                  IF rest = <<>> THEN g \notin DOMAIN guilds'
                  ELSE /\ g \in DOMAIN guilds'
                       /\ guilds'[g].members = rest
                       /\ guilds'[g].leader = rest[1]

\* C10: the leader of every party and guild is a member of it; when the leader
\* leaves and members remain, the first of them in list order becomes leader,
\* and when none remains the group is dissolved.
C10_LeaderSuccession == []C10_LeaderIsMember /\ [][C10_SuccessionStep]_vars

\* the leader of a three-member party left it; the first of the two members
\* that remain leads
C10_Witness ==
    /\ last.msg.type = "partyLeave"
    /\ "party" \in last.led
    /\ \E p \in DOMAIN parties :
           /\ Len(parties[p].members) = 2
           /\ parties[p].members[1] # parties[p].members[2]
           /\ parties[p].leader = parties[p].members[1]
           /\ \A i \in 1 .. 2 : parties[p].members[i] # username[last.conn]
           /\ connectedPlayers[username[last.conn]].partyId = Null

\* the usernames in a member list
MemberSet(members) == {members[i] : i \in 1 .. Len(members)}

\* C11 (as claimed): no username is in the member list of two different
\* parties, nor in the member list of two different guilds.
C11_OneGroupPerUser ==
    /\ \A p, q \in DOMAIN parties :
           p # q => MemberSet(parties[p].members) \cap MemberSet(parties[q].members) = {}
    /\ \A g, h \in DOMAIN guilds :
           g # h => MemberSet(guilds[g].members) \cap MemberSet(guilds[h].members) = {}

\* a user who saved a guildId, logged in again and created a guild is a member
\* of two guilds
C11_Witness ==
    /\ last.msg.type = "guildCreate"
    /\ \E g, h \in DOMAIN guilds :
           /\ g # h
           /\ username[last.conn] \in MemberSet(guilds[g].members)
           /\ guilds[h].members = <<username[last.conn]>>
           /\ connectedPlayers[username[last.conn]].guildId = h

\* the step is the close of a connection whose username has a session
ClosesSession ==
    /\ last'.msg.type = "close"
    /\ username[last'.conn] # NoUser
    /\ MapHas(connectedPlayers, username[last'.conn])

\* the close leaves the party of the session as a partyLeave would, and removes
\* the session from the registry
C12_PartyAndRegistry ==
    LET u == username[last'.conn]
        p == connectedPlayers[u].partyId
    IN /\ u \notin DOMAIN connectedPlayers'
       /\ \A w \in DOMAIN connectedPlayers \ {u} :
              /\ w \in DOMAIN connectedPlayers'
              /\ connectedPlayers'[w] = connectedPlayers[w]
       /\ IF p \in DOMAIN parties
          THEN LET rest == Remaining(parties[p].members, u)
               IN IF rest = <<>> THEN parties' = MapDelete(parties, p)
                  ELSE /\ DOMAIN parties' = DOMAIN parties
                       /\ \A q \in DOMAIN parties \ {p} : parties'[q] = parties[q]
                       /\ parties'[p].members = rest
                       /\ parties'[p].leader =
                              IF parties[p].leader = u THEN rest[1] ELSE parties[p].leader
          ELSE parties' = parties

\* what C12 says of a close step, as claimed: the guilds are left as well, and
\* every other session on the map is sent one playerLeave
C12_CloseStepAsClaimed ==
    ClosesSession =>
        LET u == username[last'.conn]
        IN /\ C12_PartyAndRegistry
           /\ \A g \in DOMAIN guilds :
                  u \in MemberSet(guilds[g].members) =>
                      \/ g \notin DOMAIN guilds'
                      \/ u \notin MemberSet(guilds'[g].members)
           /\ \A d \in Conns :
                  CountSent(sent', d, "playerLeave") =
                      Cardinality(OthersOnMap(connectedPlayers, u,
                                              connectedPlayers[u].mapId, d))

\* C12 (as claimed): a close removes the session's username from its party and
\* from its guild, with the succession and dissolution of an explicit leave,
\* removes the session from the registry and delivers one playerLeave to every
\* other session on its map.
C12_CloseLeavesGroups == [][C12_CloseStepAsClaimed]_vars

\* what the close handler does: the guild table, guilds.json and the records
\* are untouched, and the playerLeave goes to the sessions whose socket is open
C12_CloseStep ==
    ClosesSession =>
        LET u == username[last'.conn]
        IN /\ C12_PartyAndRegistry
           /\ guilds' = guilds
           /\ guildFile' = guildFile
           /\ dataFile' = dataFile
           /\ \A d \in Conns :
                  CountSent(sent', d, "playerLeave") =
                      IF readyState'[d] = "OPEN"
                      THEN Cardinality(OthersOnMap(connectedPlayers, u,
                                                   connectedPlayers[u].mapId, d))
                      ELSE 0

\* C12 (amended): a close removes the session's username from its party, with
\* the succession and dissolution of a partyLeave, and the session from the
\* registry; it leaves guild membership as it is, and delivers one playerLeave
\* to every other session on its map whose connection is open.
C12_CloseLeavesParty == [][C12_CloseStep]_vars

\* the leader of a party and of a guild disconnected: the party has a new
\* leader, the guild still lists and is still led by the user who is gone, and
\* the other sessions were told
C12_Witness ==
    /\ last.msg.type = "close"
    /\ last.led = {"party", "guild"}
    /\ \E u \in Users \ DOMAIN connectedPlayers :
           /\ \E g \in DOMAIN guilds : guilds[g].leader = u
           /\ \E p \in DOMAIN parties :
                  /\ u \notin MemberSet(parties[p].members)
                  /\ parties[p].leader = parties[p].members[1]
           /\ \E d \in Conns : CountSent(sent, d, "playerLeave") = 1

\* what C13 says of a successful login of a user a guild lists
C13_LoginStep ==
    LogsIn =>
        LET u == last'.msg.username
        IN \A g \in DOMAIN guilds :
               u \in MemberSet(guilds[g].members) =>
                   /\ g \in DOMAIN guilds'
                   /\ u \in MemberSet(guilds'[g].members)
                   /\ connectedPlayers'[u].guildId = g

\* C13 (as claimed): a user who is offline and in a guild's member list is
\* still in it after logging in again, and the new session's guildId is that
\* guild's id.
C13_GuildSurvivesReconnect == [][C13_LoginStep]_vars

\* a member of a guild logged in again and its session has no guildId
C13_Witness ==
    /\ last.msg.type = "login"
    /\ username[last.conn] = last.msg.username
    /\ MapHas(connectedPlayers, last.msg.username)
    /\ connectedPlayers[last.msg.username].guildId = Null
    /\ \E g \in DOMAIN guilds : last.msg.username \in MemberSet(guilds[g].members)

\* C14 (as claimed): the guildId of a user's durable record is g exactly when
\* guild g lists the user, and is empty exactly when no guild lists the user.
C14_RecordMirrorsGuild ==
    \A u \in DOMAIN dataFile :
        LET stored == Field(dataFile[u], "guildId")
        IN /\ \A g \in DOMAIN guilds :
                  stored = g <=> u \in MemberSet(guilds[g].members)
           /\ ~Truthy(stored) <=>
                  \A g \in DOMAIN guilds : u \notin MemberSet(guilds[g].members)

\* a guild member saved a payload naming guildId: the record says no guild,
\* the guild table and the session say guild g
C14_Witness ==
    /\ last.msg.type = "saveData"
    /\ username[last.conn] = last.msg.username
    /\ MapHas(connectedPlayers, last.msg.username)
    /\ dataFile[last.msg.username].guildId = Null
    /\ \E g \in DOMAIN guilds :
           /\ last.msg.username \in MemberSet(guilds[g].members)
           /\ connectedPlayers[last.msg.username].guildId = g

\* the step is a guildCreate that creates a guild
CreatesGuild == last'.msg.type = "guildCreate" /\ nextGuildId' # nextGuildId

\* what C15 says of a guildCreate that creates a guild
C15_CreateStep ==
    CreatesGuild =>
        /\ DOMAIN guilds' \ DOMAIN guilds # {}
        /\ \A g \in DOMAIN guilds : g \in DOMAIN guilds' /\ guilds'[g] = guilds[g]

\* C15 (as claimed): guildCreate gives the new guild an id no guild of the
\* table has, also when the table was read back from guilds.json after a
\* restart, and leaves every existing guild as it was.
C15_GuildIdsUnique == [][C15_CreateStep]_vars

\* after a restart a guildCreate reused the id of a persisted guild: the guild
\* that a user's record names now lists only its new creator
C15_Witness ==
    /\ last.msg.type = "guildCreate"
    /\ username[last.conn] # NoUser
    /\ MapHas(connectedPlayers, username[last.conn])
    /\ LET g == connectedPlayers[username[last.conn]].guildId
       IN /\ g \in DOMAIN guilds
          /\ guilds[g].members = <<username[last.conn]>>
          /\ guildFile = guilds
          /\ \E u \in DOMAIN dataFile \ {username[last.conn]} :
                 dataFile[u].guildId = g

\* the messages that need a logged-in connection
GameplayTypes ==
    {"playerMove", "chat", "partyInvite", "partyAccept", "partyLeave",
     "guildCreate", "guildInvite", "guildAccept", "guildLeave"}

\* a typed failure response: success false, or a message of type error
IsFailure(m) == m.type = "error" \/ ("success" \in DOMAIN m /\ ~m.success)

\* the connection of the step was sent a failure response
FailureAnswered == \E i \in 1 .. Len(sent'[last'.conn]) : IsFailure(sent'[last'.conn][i])

\* the step is a gameplay message from a connection that has not logged in
GameplayBeforeLogin ==
    /\ last'.msg.type \in GameplayTypes
    /\ username[last'.conn] = NoUser

\* the step is a guildInvite from a session that does not lead its guild
InviteByNonLeader ==
    /\ last'.msg.type = "guildInvite"
    /\ username[last'.conn] # NoUser
    /\ MapHas(connectedPlayers, username[last'.conn])
    /\ "guild" \notin last'.led

\* C16 (as claimed): a gameplay message sent before login is answered with a
\* failure response to the sender, and so is a guildInvite from a session that
\* is not the leader of its guild.
C16_ErrorsAnswered ==
    [][(GameplayBeforeLogin \/ InviteByNonLeader) => FailureAnswered]_vars

\* a guild member that does not lead the guild sent a guildInvite, and nothing
\* was sent to anybody
C16_Witness ==
    /\ last.msg.type = "guildInvite"
    /\ "guild" \notin last.led
    /\ username[last.conn] # NoUser
    /\ MapHas(connectedPlayers, username[last.conn])
    /\ connectedPlayers[username[last.conn]].guildId \in DOMAIN guilds
    /\ sent = NoneSent

\* the step is a global chat from a connection that has logged in
ChatsGlobally ==
    /\ last'.msg.type = "chat"
    /\ last'.msg.scope = "global"
    /\ username[last'.conn] # NoUser

\* C17 (as claimed): a global chat from an authenticated session is delivered
\* once to each session of the registry, whatever its targetId, and to no
\* connection that has not authenticated.
C17_GlobalChatToSessions ==
    [][ChatsGlobally =>
          \A d \in Conns :
              CountSent(sent', d, "chat") =
                  Cardinality({u \in DOMAIN connectedPlayers : connectedPlayers[u].ws = d})]_vars

\* a global chat reached an open connection that has not logged in
C17_Witness ==
    /\ last.msg.type = "chat"
    /\ last.msg.scope = "global"
    /\ username[last.conn] # NoUser
    /\ \E d \in Conns :
           /\ IsOpen(d)
           /\ username[d] = NoUser
           /\ \A u \in DOMAIN connectedPlayers : connectedPlayers[u].ws # d
           /\ CountSent(sent, d, "chat") = 1

\* connection c is open and has not logged in
Unauthenticated(c) == IsOpen(c) /\ username[c] = NoUser

\* a logged-in connection stops being open only by its own close event
C18_ClosedOnlyByClose ==
    \A c \in Conns :
        (IsOpen(c) /\ username[c] # NoUser /\ readyState'[c] # "OPEN") =>
            (last'.msg.type = "close" /\ last'.conn = c)

\* C18 (as claimed): a connection that stays unauthenticated is eventually
\* closed, and a connection that has authenticated is never closed by the
\* timeout.
C18_AuthTimeout ==
    /\ \A c \in Conns : Unauthenticated(c) ~> ~Unauthenticated(c)
    /\ [][C18_ClosedOnlyByClose]_vars

\* a connection that has not logged in was answered a ping and is still open
C18_Witness ==
    /\ last.msg.type = "ping"
    /\ Unauthenticated(last.conn)
    /\ Len(sent[last.conn]) = 1

\* the step is a partyAccept from a session
AcceptsParty ==
    /\ last'.msg.type = "partyAccept"
    /\ username[last'.conn] # NoUser
    /\ MapHas(connectedPlayers, username[last'.conn])

\* what C19 says of a partyAccept
C19_AcceptStep ==
    AcceptsParty =>
        LET u == username[last'.conn]
        IN /\ Truthy(connectedPlayers[u].partyId) =>
                  /\ parties' = parties
                  /\ connectedPlayers' = connectedPlayers
                  /\ nextPartyId' = nextPartyId
                  /\ sent' = NoneSent
           /\ \A p \in DOMAIN parties' \ DOMAIN parties :
                  {last'.msg.fromUsername, u} \subseteq MemberSet(parties'[p].members)

\* C19 (as claimed): a partyAccept from a session that is already in a party
\* changes nothing and sends nothing, and a party that a partyAccept creates
\* has the inviter and the invitee as members.
C19_AcceptWhenInPartyNoOp == [][C19_AcceptStep]_vars

\* a session that is in a party accepted an inviter that had none: a second
\* party exists with the inviter alone in it, and nothing was sent
C19_Witness ==
    /\ last.msg.type = "partyAccept"
    /\ username[last.conn] # NoUser
    /\ MapHas(connectedPlayers, username[last.conn])
    /\ sent = NoneSent
    /\ \E p, q \in DOMAIN parties :
           /\ p # q
           /\ connectedPlayers[username[last.conn]].partyId = p
           /\ username[last.conn] \in MemberSet(parties[p].members)
           /\ parties[q].members = <<last.msg.fromUsername>>
           /\ last.msg.fromUsername # username[last.conn]
           /\ nextPartyId = q + 1

\* the partyUpdate messages among those sent to connection d
UpdatesSent(out, d) == {out[d][i] : i \in {j \in 1 .. Len(out[d]) : out[d][j].type = "partyUpdate"}}

\* each of the members has a session, and connection d was sent one partyUpdate
\* for every member whose session is on it, and no other
DeliveredToMembers(members, update) ==
    /\ \A i \in 1 .. Len(members) : MapHas(connectedPlayers', members[i])
    /\ \A d \in Conns :
           /\ CountSent(sent', d, "partyUpdate") =
                  Cardinality({i \in 1 .. Len(members) :
                      connectedPlayers'[members[i]].ws = d})
           /\ UpdatesSent(sent', d) \subseteq {update}

\* the step is a partyAccept by which the sender joins the inviter's party
JoinsParty ==
    /\ AcceptsParty
    /\ MapHas(connectedPlayers, last'.msg.fromUsername)
    /\ ~Truthy(connectedPlayers[username[last'.conn]].partyId)
    /\ last'.msg.fromUsername # username[last'.conn]

\* what C20 says of a partyAccept that joins and of a partyLeave that leaves
\* members behind
C20_UpdateStep ==
    /\ JoinsParty =>
           LET u == username[last'.conn]
               from == connectedPlayers[last'.msg.fromUsername]
               p == connectedPlayers'[u].partyId
               before == IF Truthy(from.partyId) THEN parties[from.partyId].members
                         ELSE <<last'.msg.fromUsername>>
           IN /\ p \in DOMAIN parties'
              /\ parties'[p].members = Append(before, u)
              /\ DeliveredToMembers(parties'[p].members,
                     [type |-> "partyUpdate", partyId |-> p,
                      members |-> parties'[p].members])
    /\ (LeavesParty /\ last'.msg.type = "partyLeave") =>
           LET u == username[last'.conn]
               p == connectedPlayers[u].partyId
               rest == Remaining(parties[p].members, u)
           IN rest # <<>> =>
                  /\ p \in DOMAIN parties'
                  /\ DeliveredToMembers(rest,
                         [type |-> "partyUpdate", partyId |-> p, members |-> rest,
                          leader |-> parties'[p].leader])

\* C20 (as claimed): after a partyAccept that joins, every member of the party
\* is sent one partyUpdate with the party id and the member list in join order;
\* after a partyLeave that leaves members behind, each of them, and not the
\* leaver, is sent one partyUpdate with the remaining members and the leader.
C20_PartyUpdates == [][C20_UpdateStep]_vars

\* the same, for steps taken where every session's socket is open
C20_UpdatesOpenSockets ==
    [][(\A w \in DOMAIN connectedPlayers : IsOpen(connectedPlayers[w].ws))
           => C20_UpdateStep]_vars

\* a session joined the party of an inviter whose session was left behind on a
\* closed connection: the inviter is a member and was sent no partyUpdate
C20_Witness ==
    /\ last.msg.type = "partyAccept"
    /\ username[last.conn] # NoUser
    /\ MapHas(connectedPlayers, username[last.conn])
    /\ MapHas(connectedPlayers, last.msg.fromUsername)
    /\ LET p == connectedPlayers[username[last.conn]].partyId
           from == connectedPlayers[last.msg.fromUsername]
       IN /\ p \in DOMAIN parties
          /\ from.partyId = p
          /\ parties[p].members = <<last.msg.fromUsername, username[last.conn]>>
          /\ ~IsOpen(from.ws)
          /\ sent[from.ws] = <<>>
          /\ CountSent(sent, last.conn, "partyUpdate") = 1

\* the guild handlers
GuildTypes == {"guildCreate", "guildAccept", "guildLeave"}

\* the table read back from guilds.json has the ids, names, leaders and
\* member lists of table g
SameGuilds(file, g) ==
    /\ DOMAIN file = DOMAIN g
    /\ \A id \in DOMAIN g :
          /\ NameOf(file[id]) = NameOf(g[id])
          /\ file[id].leader = g[id].leader
          /\ file[id].members = g[id].members

C21_GuildStep ==
    last'.msg.type \in GuildTypes => SameGuilds(guildFile', guilds')

\* C21: after every guildCreate, guildAccept and guildLeave the guild table in
\* guilds.json has the ids, names, leaders and member lists of the guild table
\* in memory, also after a leader was succeeded and after an emptied guild was
\* dissolved.
C21_GuildFileCurrent == [][C21_GuildStep]_vars

\* a leader has left a guild without a name, the next member leads it, and the
\* file says so
C21_Witness ==
    /\ last.msg.type = "guildLeave"
    /\ "guild" \in last.led
    /\ effects[2] = "saveGuilds"
    /\ \E id \in DOMAIN guilds :
          /\ NameOf(guilds[id]) = NoName
          /\ guilds[id].leader # username[last.conn]
          /\ guildFile[id].leader = guilds[id].leader
          /\ "name" \notin DOMAIN guildFile[id]

C25_InviteStep ==
    last'.msg.type = "guildInvite" =>
        LET c == last'.conn
            target == last'.msg.targetUsername
        IN /\ UNCHANGED <<connectedPlayers, parties, guilds, dataFile, guildFile,
                          playerDirs, nextGuildId, nextPartyId, username>>
           /\ sent' # NoneSent =>
                 /\ username[c] # NoUser
                 /\ MapHas(connectedPlayers, username[c])
                 /\ MapHas(connectedPlayers, target)
                 /\ "guild" \in last'.led
                 /\ sent' = Send(NoneSent, connectedPlayers[target].ws,
                                 [type |-> "guildInvite",
                                  guildId |-> connectedPlayers[username[c]].guildId,
                                  guildName |-> NameOf(guilds[connectedPlayers[username[c]].guildId]),
                                  fromUsername |-> username[c]])

\* C25: a guildInvite is sent to a target only when the sender has a session,
\* the target has a session, and the sender leads the guild its session's
\* guildId names; it goes to the target's socket alone, and the handler changes
\* no guild, no session and no durable record.
C25_InviteOnlyByLeader == [][C25_InviteStep]_vars

\* a leader has invited another user, and a member who does not lead has
\* tried to
C25_Witness ==
    /\ last.msg.type = "guildInvite"
    /\ MapHas(connectedPlayers, last.msg.targetUsername)
    /\ last.msg.targetUsername # username[last.conn]
    /\ Len(sent[connectedPlayers[last.msg.targetUsername].ws]) = 1
    /\ <<last.msg.targetUsername, 1>> \in invited

\* a guildAccept that added its sender to the member list
JoinsGuild ==
    /\ last'.msg.type = "guildAccept"
    /\ MapHas(guilds, last'.msg.guildId)
    /\ MapHas(guilds', last'.msg.guildId)
    /\ Len(guilds'[last'.msg.guildId].members) > Len(guilds[last'.msg.guildId].members)

C26_AcceptStep ==
    JoinsGuild => <<username[last'.conn], last'.msg.guildId>> \in invited

\* C26: guildAccept adds its sender to a guild's member list only if a
\* guildInvite for that guild id was delivered to the sender's session before.
C26_AcceptOnlyInvited == [][C26_AcceptStep]_vars

\* a user who was never invited has joined a guild
C26_Witness ==
    /\ last.msg.type = "guildAccept"
    /\ MapHas(guilds, last.msg.guildId)
    /\ Len(guilds[last.msg.guildId].members) = 2
    /\ guilds[last.msg.guildId].members[2] = username[last.conn]
    /\ <<username[last.conn], last.msg.guildId>> \notin invited

C27_SessionsInParties ==
    \A u \in DOMAIN connectedPlayers :
        /\ Truthy(connectedPlayers[u].partyId) =>
              /\ MapHas(parties, connectedPlayers[u].partyId)
              /\ u \in MemberSet(parties[connectedPlayers[u].partyId].members)
        /\ \A p \in DOMAIN parties :
              u \in MemberSet(parties[p].members) => connectedPlayers[u].partyId = p

C27_MembersInRegistry ==
    \A p \in DOMAIN parties :
        /\ MemberSet(parties[p].members) \subseteq DOMAIN connectedPlayers
        /\ Cardinality(MemberSet(parties[p].members)) = Len(parties[p].members)

\* C27: the party table and the registry agree after every message and every
\* close: a session has partyId p exactly when its username is in the member
\* list of party p, every member of a party has a session, and no member list
\* names a user twice.
C27_PartiesMatchRegistry == C27_SessionsInParties /\ C27_MembersInRegistry

\* a member of a party of three has disconnected: the two who stay are the
\* party, and the one who left is in neither table
C27_Witness ==
    /\ last.msg.type = "close"
    /\ \E p \in DOMAIN parties :
          /\ Len(parties[p].members) = 2
          /\ \A i \in 1 .. 2 : connectedPlayers[parties[p].members[i]].partyId = p
    /\ Cardinality(DOMAIN connectedPlayers) = 2
    /\ username[last.conn] \notin DOMAIN connectedPlayers

\* the step is a saveData of the sender's own record, sent by a connection
\* with a session, whose payload names the map
SavesPosition ==
    /\ last'.msg.type = "saveData"
    /\ username[last'.conn] # NoUser
    /\ last'.msg.username = username[last'.conn]
    /\ MapHas(connectedPlayers, username[last'.conn])
    /\ "mapId" \in DOMAIN last'.msg.playerData

C22_SaveStep ==
    SavesPosition =>
        LET u == username[last'.conn]
            playerData == last'.msg.playerData
            player == connectedPlayers'[u]
        IN /\ player.mapId = dataFile'[u].mapId
           /\ {"x", "y"} \subseteq DOMAIN playerData =>
                 /\ player.x = dataFile'[u].x
                 /\ player.y = dataFile'[u].y
                 /\ \A d \in Conns :
                       CountSent(sent', d, "playerMove") =
                           Cardinality(OthersOnMap(connectedPlayers', u, player.mapId, d))

\* C22 (as claimed): after a saveData whose payload has position fields the
\* session's mapId, x and y are the values just written to the durable record
\* and every other session on the session's map gets one playerMove; after a
\* saveData that set mapId the session's mapId is the record's mapId.
C22_SessionFollowsRecord == [][C22_SaveStep]_vars

\* a saveData that named the map alone was handled: the record is on map 2,
\* the session is still on map 1
C22_Witness ==
    /\ last.msg.type = "saveData"
    /\ last.msg.playerData = MapOnlyPayload
    /\ username[last.conn] = last.msg.username
    /\ MapHas(connectedPlayers, username[last.conn])
    /\ dataFile[username[last.conn]].mapId = 2
    /\ connectedPlayers[username[last.conn]].mapId = 1

\* the file writes among the effects of a handler
FileWrites == {"savePlayerData", "saveGuilds"}

C24_OrderStep ==
    /\ \A i, j \in DOMAIN effects' :
          (i < j /\ effects'[j] \in FileWrites) => effects'[i] \in FileWrites
    /\ (\E d \in Conns : CountSent(sent', d, "playerMove") > 0
            /\ last'.msg.type = "saveData") =>
          effects' = <<"savePlayerData", "send">>
    /\ (\E d \in Conns : CountSent(sent', d, "guildUpdate") > 0) =>
          effects' = <<"savePlayerData", "saveGuilds", "send">>

\* C24: within one handler run every file write comes before every send: in
\* saveData the durable record is written before the playerMove goes out, and
\* in guildCreate, guildAccept and guildLeave the member's record and
\* guilds.json are written before any guildUpdate goes out.
C24_WritesBeforeSends == [][C24_OrderStep]_vars

\* a saveData has written the record and then told the other session on the
\* map
C24_Witness ==
    /\ last.msg.type = "saveData"
    /\ effects = <<"savePlayerData", "send">>
    /\ \E d \in Conns \ {last.conn} : CountSent(sent, d, "playerMove") = 1
    /\ dataFile[username[last.conn]].mapId = 2

\* the message is not JSON, or of no known type, or lacks the field its
\* handler reads
IsMalformed(m) ==
    \/ m.type \in {"unparseable", "unknown"}
    \/ m.type = "login" /\ "username" \notin DOMAIN m
    \/ m.type = "partyAccept" /\ m.fromUsername = NoUser
    \/ m.type = "guildCreate" /\ m.guildName = NoName

C23_DropStep ==
    IsMalformed(last'.msg) =>
        /\ UNCHANGED <<connectedPlayers, parties, guilds, dataFile, guildFile>>
        /\ sent' = NoneSent

\* C23 (as claimed): a message that is not JSON, has an unknown type, or lacks
\* the field its handler needs is dropped: the registry, the party table, the
\* guild table and the files are as before and nothing is sent.
C23_MalformedDropped == [][C23_DropStep]_vars

\* a guildCreate without guildName was handled: a guild without a name exists,
\* its file is written and its creator was told
C23_Witness ==
    /\ last.msg.type = "guildCreate"
    /\ last.msg.guildName = NoName
    /\ \E id \in DOMAIN guilds :
          /\ NameOf(guilds[id]) = NoName
          /\ id \in DOMAIN guildFile
          /\ connectedPlayers[username[last.conn]].guildId = id
    /\ CountSent(sent, last.conn, "guildUpdate") = 1

====
